---- MODULE Spec2Model ----
(***************************************************************************)
(* Incident-response orchestrator of ch10/Recipe_10_4:                     *)
(*   incident_workflows.py        WorkflowStep, the five workflow          *)
(*                                generators and WorkflowEngine            *)
(*   incident_response_system.py  IncidentClassifier and                   *)
(*                                IncidentResponseEngine with its store    *)
(*                                and its pool of worker threads           *)
(*                                                                         *)
(* Python values are modelled as follows.  A dict is a function whose      *)
(* domain is its set of keys; a list is a sequence; None is the string     *)
(* "None" where the other values are strings and the empty sequence where  *)
(* the other values are lists or timestamps (execution_time is <<>> or     *)
(* <<t>>; prerequisites=None is <<>>, which the code treats exactly like   *)
(* an empty list: both are falsy in `if step.prerequisites`).              *)
(***************************************************************************)
EXTENDS Integers, Sequences, FiniteSets, TLC

VARIABLES
    active_workflows,     \* WorkflowEngine.active_workflows: incident_id -> list of WorkflowStep
    workflow_generators,  \* WorkflowEngine.workflow_generators: incident type -> generator
    ret,                  \* what the most recent call returned (or raised)
    clock,                \* datetime.datetime.now(), in whole seconds
    issued_ids,           \* the incident ids classify_incident has returned so far, in call order
    report,               \* the raw incident report handed to the classifier
    incidents,            \* table incidents of the store: incident_id -> row
    response_actions,     \* table response_actions of the store: its rows, in action_id order
    response_steps,       \* process_incident: the plan _generate_response_plan returned
    futures,              \* _execute_response_plan: one future per submitted step
    pc,                   \* where the running process_incident call stands ("idle": none runs)
    overdue               \* the steps that were still running when their 300 seconds had passed

\* The state of IncidentResponseEngine.
engine_vars == <<incidents, response_actions, response_steps, futures, pc, overdue>>

vars == <<active_workflows, workflow_generators, ret, clock, issued_ids, report, engine_vars>>

----------------------------------------------------------------------------
(* Bounds of the model *)

\* Spec explores the engine's API freely; an update_step_status call is taken
\* only while at most MaxTouched steps of the workflow differ from a fresh step.
MaxTouched == 1

\* The clock counts ticks, TicksPerSecond of them to a second, from 0 to MaxClock.
TicksPerSecond == 2
MaxClock == 3

\* classify_incident is called at most MaxCalls times in one run.
MaxCalls == 3

\* process_incident classifies at most MaxProcess reports in one run.
MaxProcess == 2

\* A caller saves step outcomes while the store holds fewer than MaxRows of them.
MaxRows == 2

\* At most MaxOverdue steps of a plan run for longer than their 300 seconds.
MaxOverdue == 1

----------------------------------------------------------------------------
(* Python helpers *)

None == "None"

\* dict.get(key, default)
Get(d, key, default) == IF key \in DOMAIN d THEN d[key] ELSE default

EmptyDict == [k \in {} |-> None]

\* truth value of a string-or-None (`if user_account:`)
Truthy(v) == v # None /\ v # ""

----------------------------------------------------------------------------
(* WorkflowStatus and WorkflowStep, incident_workflows.py:14-33 *)

PENDING == "pending"
IN_PROGRESS == "in_progress"
COMPLETED == "completed"
FAILED == "failed"
SKIPPED == "skipped"

WorkflowStatus == {PENDING, IN_PROGRESS, COMPLETED, FAILED, SKIPPED}

\* The dataclass constructor with its defaults: status PENDING, no execution
\* time, no result.  `parameters` keeps the entries taken from the incident.
WorkflowStep(step_id, action_type, parameters, prerequisites, critical) ==
    [step_id        |-> step_id,
     action_type    |-> action_type,
     parameters     |-> parameters,
     prerequisites  |-> prerequisites,
     critical       |-> critical,
     status         |-> PENDING,
     execution_time |-> <<>>,
     result         |-> None]

----------------------------------------------------------------------------
(* The workflow generators *)

Indicators(incident_data) == Get(incident_data, "indicators", EmptyDict)

RansomwareWorkflow(incident_data) ==
    LET affected_systems == Get(incident_data, "affected_systems", <<>>)
        c2_ips == Get(Indicators(incident_data), "c2_ips", <<>>)
    IN << WorkflowStep("RANSOM_001", "isolate_systems", [systems |-> affected_systems], <<>>, TRUE),
          WorkflowStep("RANSOM_002", "block_ips", [ip_list |-> c2_ips], <<>>, TRUE),
          WorkflowStep("RANSOM_003", "disable_services", [services |-> <<"SMB", "NFS", "FTP">>], <<>>, TRUE),
          WorkflowStep("RANSOM_004", "collect_evidence", [systems |-> affected_systems], <<"RANSOM_001">>, FALSE),
          WorkflowStep("RANSOM_005", "malware_analysis", EmptyDict, <<"RANSOM_004">>, FALSE),
          WorkflowStep("RANSOM_006", "decryption_research", EmptyDict, <<"RANSOM_005">>, FALSE),
          WorkflowStep("RANSOM_007", "backup_verification",
                       [backup_systems |-> <<"primary_backup", "offsite_backup">>], <<>>, FALSE),
          WorkflowStep("RANSOM_008", "system_restore", EmptyDict, <<"RANSOM_007">>, FALSE) >>

\* Mutant of ComplianceStep: it waits for the optional account step.
ComplianceStep_after_account(compliance_reqs) ==
    WorkflowStep("EXFIL_007", "compliance_notification", [regulations |-> compliance_reqs],
                 <<"EXFIL_003">>, TRUE)

\* The compliance step of the data-exfiltration workflow (lines 266-279).
ComplianceStep(compliance_reqs) ==
    WorkflowStep("EXFIL_007", "compliance_notification", [regulations |-> compliance_reqs],
                 <<"EXFIL_005">>, TRUE)

DataExfiltrationWorkflow(incident_data) ==
    LET affected_systems == Get(incident_data, "affected_systems", <<>>)
        external_ips == Get(Indicators(incident_data), "external_ips", <<>>)
        user_account == Get(Indicators(incident_data), "user_account", None)
        compliance_reqs == Get(Get(incident_data, "impact_assessment", EmptyDict),
                               "compliance_implications", <<>>)
    IN << WorkflowStep("EXFIL_001", "block_ips", [ip_list |-> external_ips], <<>>, TRUE),
          WorkflowStep("EXFIL_002", "isolate_systems", [systems |-> affected_systems], <<>>, TRUE) >>
       \o (IF Truthy(user_account)
           THEN << WorkflowStep("EXFIL_003", "account_security", [account |-> user_account], <<>>, TRUE) >>
           ELSE <<>>)
       \o << WorkflowStep("EXFIL_004", "log_analysis", [focus_user |-> user_account], <<>>, FALSE),
             WorkflowStep("EXFIL_005", "data_classification",
                          [source_directories |->
                              Get(Indicators(incident_data), "source_directories", <<>>)],
                          <<"EXFIL_004">>, FALSE),
             WorkflowStep("EXFIL_006", "network_analysis",
                          [external_destinations |-> external_ips], <<>>, FALSE) >>
       \o (IF Len(compliance_reqs) > 0 THEN << ComplianceStep(compliance_reqs) >> ELSE <<>>)

CredentialCompromiseWorkflow(incident_data) ==
    LET compromised_accounts == Get(Indicators(incident_data), "compromised_accounts", <<>>)
        source_ip == Get(Indicators(incident_data), "source_ip", None)
        affected_systems == Get(incident_data, "affected_systems", <<>>)
    IN << WorkflowStep("CRED_001", "disable_accounts", [accounts |-> compromised_accounts], <<>>, TRUE),
          WorkflowStep("CRED_002", "block_ips",
                       [ip_list |-> IF Truthy(source_ip) THEN <<source_ip>> ELSE <<>>], <<>>, TRUE),
          WorkflowStep("CRED_003", "privilege_audit", [accounts |-> compromised_accounts], <<>>, FALSE),
          WorkflowStep("CRED_004", "log_analysis", EmptyDict, <<>>, FALSE),
          WorkflowStep("CRED_005", "lateral_movement_analysis",
                       [source_systems |-> affected_systems], <<"CRED_004">>, FALSE),
          WorkflowStep("CRED_006", "password_reset",
                       [scope |-> IF Len(compromised_accounts) > 5
                                  THEN "organization_wide" ELSE "targeted"],
                       <<"CRED_003">>, FALSE),
          WorkflowStep("CRED_007", "system_rebuild", [systems |-> affected_systems],
                       <<"CRED_005">>, FALSE) >>

DDoSWorkflow(incident_data) ==
    LET attack_sources == Get(Indicators(incident_data), "attack_sources", <<>>)
        affected_systems == Get(incident_data, "affected_systems", <<>>)
        attack_types == Get(Indicators(incident_data), "attack_types", <<>>)
    IN << WorkflowStep("DDOS_001", "ddos_protection", EmptyDict, <<>>, TRUE),
          WorkflowStep("DDOS_002", "block_networks", [networks |-> attack_sources], <<>>, TRUE),
          WorkflowStep("DDOS_003", "traffic_analysis", [attack_types |-> attack_types], <<>>, FALSE),
          WorkflowStep("DDOS_004", "traffic_filtering", EmptyDict, <<"DDOS_003">>, FALSE),
          WorkflowStep("DDOS_005", "infrastructure_scaling", EmptyDict, <<>>, FALSE),
          WorkflowStep("DDOS_006", "availability_monitoring", EmptyDict, <<>>, FALSE) >>

InsiderThreatWorkflow(incident_data) ==
    LET employee_id == Get(Indicators(incident_data), "employee_id", None)
        accessed_systems == Get(Indicators(incident_data), "accessed_systems", <<>>)
        data_accessed == Get(Indicators(incident_data), "data_accessed", <<>>)
    IN << WorkflowStep("INSIDER_001", "user_monitoring", [employee_id |-> employee_id], <<>>, TRUE),
          WorkflowStep("INSIDER_002", "permission_audit",
                       [employee_id |-> employee_id, systems |-> accessed_systems], <<>>, FALSE),
          WorkflowStep("INSIDER_003", "behavior_analysis", [employee_id |-> employee_id], <<>>, FALSE),
          WorkflowStep("INSIDER_004", "data_loss_assessment", [data_types |-> data_accessed],
                       <<"INSIDER_003">>, FALSE),
          WorkflowStep("INSIDER_005", "hr_coordination", [employee_id |-> employee_id],
                       <<"INSIDER_004">>, FALSE),
          WorkflowStep("INSIDER_006", "legal_review", EmptyDict, <<"INSIDER_005">>, FALSE) >>

\* A generator that is not in the repository: the deliberately cyclic step
\* set that workflow creation is tested with (CYC_001 and CYC_002 wait for
\* each other, CYC_003 for nothing).  Only SpecCyclic registers it.
CyclicWorkflow(incident_data) ==
    << WorkflowStep("CYC_001", "isolate_systems", EmptyDict, <<"CYC_002">>, TRUE),
       WorkflowStep("CYC_002", "collect_evidence", EmptyDict, <<"CYC_001">>, FALSE),
       WorkflowStep("CYC_003", "notify_stakeholders", EmptyDict, <<>>, FALSE) >>

----------------------------------------------------------------------------
(* WorkflowEngine, incident_workflows.py:608-703 *)

\* The generator table __init__ builds (lines 613-619).
InitialGenerators ==
    [malware_outbreak      |-> "RansomwareWorkflow",
     data_exfiltration     |-> "DataExfiltrationWorkflow",
     credential_compromise |-> "CredentialCompromiseWorkflow",
     ddos_attack           |-> "DDoSWorkflow",
     insider_threat        |-> "InsiderThreatWorkflow"]

\* self.workflow_generators[incident_type](incident_data): the call of line 626.
generate_workflow(generator, incident_data) ==
    CASE generator = "RansomwareWorkflow"           -> RansomwareWorkflow(incident_data)
      [] generator = "DataExfiltrationWorkflow"     -> DataExfiltrationWorkflow(incident_data)
      [] generator = "CredentialCompromiseWorkflow" -> CredentialCompromiseWorkflow(incident_data)
      [] generator = "DDoSWorkflow"                 -> DDoSWorkflow(incident_data)
      [] generator = "InsiderThreatWorkflow"        -> InsiderThreatWorkflow(incident_data)
      [] generator = "CyclicWorkflow"               -> CyclicWorkflow(incident_data)

\* next((s for s in workflow if s.step_id == step_id), None): the index of the
\* first step with that id, 0 for None.
RECURSIVE find_step(_, _, _)
find_step(workflow, step_id, i) ==
    IF i > Len(workflow) THEN 0
    ELSE IF workflow[i].step_id = step_id THEN i
    ELSE find_step(workflow, step_id, i + 1)

\* Mutant of prereq_met: a prerequisite that FAILED counts as met too.
RECURSIVE prereq_met_once_finished(_, _, _)
prereq_met_once_finished(workflow, prerequisites, k) ==
    IF k > Len(prerequisites) THEN TRUE
    ELSE LET j == find_step(workflow, prerequisites[k], 1)
         IN  IF j = 0 \/ workflow[j].status \notin {COMPLETED, FAILED}
             THEN FALSE
             ELSE prereq_met_once_finished(workflow, prerequisites, k + 1)

\* The inner loop of get_next_steps (lines 674-679) from the k-th prerequisite on.
RECURSIVE prereq_met(_, _, _)
prereq_met(workflow, prerequisites, k) ==
    IF k > Len(prerequisites) THEN TRUE
    ELSE LET j == find_step(workflow, prerequisites[k], 1)
         IN  IF j = 0 \/ workflow[j].status # COMPLETED
             THEN FALSE
             ELSE prereq_met(workflow, prerequisites, k + 1)

\* Mutant of next_steps_from: a FAILED step whose prerequisites are met is
\* handed out again.
RECURSIVE next_steps_from_retry_failed(_, _)
next_steps_from_retry_failed(workflow, i) ==
    IF i > Len(workflow) THEN <<>>
    ELSE LET step == workflow[i]
             rest == next_steps_from_retry_failed(workflow, i + 1)
         IN  IF step.status \notin {PENDING, FAILED} THEN rest
             ELSE IF Len(step.prerequisites) > 0
                     /\ ~prereq_met(workflow, step.prerequisites, 1) THEN rest
             ELSE <<step>> \o rest

\* The outer loop of get_next_steps (lines 668-684) from the i-th step on.
RECURSIVE next_steps_from(_, _)
next_steps_from(workflow, i) ==
    IF i > Len(workflow) THEN <<>>
    ELSE LET step == workflow[i]
             rest == next_steps_from(workflow, i + 1)
         IN  IF step.status # PENDING THEN rest
             ELSE IF Len(step.prerequisites) > 0
                     /\ ~prereq_met(workflow, step.prerequisites, 1) THEN rest
             ELSE <<step>> \o rest

\* Mutant of get_next_steps: once a step of the workflow has failed, no step
\* is handed out any more.
get_next_steps_abort_on_failure(workflows, incident_id) ==
    IF incident_id \notin DOMAIN workflows THEN <<>>
    ELSE IF \E i \in 1..Len(workflows[incident_id]) : workflows[incident_id][i].status = FAILED
    THEN <<>>
    ELSE next_steps_from(workflows[incident_id], 1)

\* get_next_steps as a function of the engine's workflows.
get_next_steps(workflows, incident_id) ==
    IF incident_id \notin DOMAIN workflows THEN <<>>
    ELSE next_steps_from(workflows[incident_id], 1)

\* len([s for s in workflow if s.status == status])
count_status(workflow, status) ==
    Cardinality({i \in 1..Len(workflow) : workflow[i].status = status})

\* The summary get_workflow_status builds for a workflow (lines 637-658).
status_summary(workflow) ==
    [total_steps |-> Len(workflow),
     completed   |-> count_status(workflow, COMPLETED),
     failed      |-> count_status(workflow, FAILED),
     in_progress |-> count_status(workflow, IN_PROGRESS),
     pending     |-> count_status(workflow, PENDING),
     steps       |-> [i \in 1..Len(workflow) |->
                        [step_id        |-> workflow[i].step_id,
                         status         |-> workflow[i].status,
                         critical       |-> workflow[i].critical,
                         execution_time |-> workflow[i].execution_time,
                         result         |-> workflow[i].result]]]

\* The assignments of update_step_status to the step it found (lines 697-700).
set_step(step, status, result, now) ==
    [step EXCEPT !.status = status,
                 !.result = result,
                 !.execution_time = IF status \in {COMPLETED, FAILED} THEN <<now>> ELSE @]

\* The workflow after update_step_status(step_id, status, result); unchanged
\* when no step has that id.
updated_workflow(workflow, step_id, status, result, now) ==
    LET j == find_step(workflow, step_id, 1)
    IN  IF j = 0 THEN workflow
        ELSE [workflow EXCEPT ![j] = set_step(workflow[j], status, result, now)]

Returned(op, value) == [op |-> op, raised |-> None, value |-> value]
Raised(op, error) == [op |-> op, raised |-> error, value |-> None]

\* create_workflow (lines 621-630)
create_workflow(incident_id, incident_type, incident_data) ==
    IF incident_type \notin DOMAIN workflow_generators
    THEN /\ ret' = Raised("create_workflow", "ValueError")
         /\ UNCHANGED <<active_workflows, workflow_generators, clock, issued_ids, report, engine_vars>>
    ELSE LET workflow_steps ==
                 generate_workflow(workflow_generators[incident_type], incident_data)
         IN  /\ active_workflows' =
                    [id \in DOMAIN active_workflows \cup {incident_id} |->
                        IF id = incident_id THEN workflow_steps ELSE active_workflows[id]]
             /\ ret' = Returned("create_workflow", workflow_steps)
             /\ UNCHANGED <<workflow_generators, clock, issued_ids, report, engine_vars>>

\* get_workflow_status (lines 632-658)
get_workflow_status(incident_id) ==
    /\ ret' = IF incident_id \notin DOMAIN active_workflows
              THEN Returned("get_workflow_status", [error |-> "Workflow not found"])
              ELSE Returned("get_workflow_status", status_summary(active_workflows[incident_id]))
    /\ UNCHANGED <<active_workflows, workflow_generators, clock, issued_ids, report, engine_vars>>

\* Mutant of call_get_next_steps: the steps handed out are marked
\* IN_PROGRESS.
call_get_next_steps_marks_in_progress(incident_id) ==
    LET ready == get_next_steps(active_workflows, incident_id)
    IN  /\ ret' = Returned("get_next_steps", ready)
        /\ active_workflows' =
               [id \in DOMAIN active_workflows |->
                   IF id # incident_id THEN active_workflows[id]
                   ELSE [i \in 1..Len(active_workflows[id]) |->
                            IF \E k \in 1..Len(ready) :
                                   ready[k].step_id = active_workflows[id][i].step_id
                            THEN [active_workflows[id][i] EXCEPT !.status = IN_PROGRESS]
                            ELSE active_workflows[id][i]]]
        /\ UNCHANGED <<workflow_generators, clock, issued_ids, report, engine_vars>>

\* get_next_steps (lines 660-686), as a call
call_get_next_steps(incident_id) ==
    /\ ret' = Returned("get_next_steps", get_next_steps(active_workflows, incident_id))
    /\ UNCHANGED <<active_workflows, workflow_generators, clock, issued_ids, report, engine_vars>>

\* update_step_status (lines 688-703)
update_step_status(incident_id, step_id, status, result) ==
    IF incident_id \notin DOMAIN active_workflows
    THEN /\ ret' = Returned("update_step_status", FALSE)
         /\ UNCHANGED <<active_workflows, workflow_generators, clock, issued_ids, report, engine_vars>>
    ELSE LET workflow == active_workflows[incident_id]
         IN  /\ active_workflows' =
                    [active_workflows EXCEPT
                        ![incident_id] = updated_workflow(workflow, step_id, status, result, clock)]
             /\ ret' = Returned("update_step_status", find_step(workflow, step_id, 1) # 0)
             /\ UNCHANGED <<workflow_generators, clock, issued_ids, report, engine_vars>>

----------------------------------------------------------------------------
(* Inputs of the engine *)

\* Incident ids a workflow is created for, and the ids the other calls use
\* (one of them never has a workflow).
CreateIds == {"INC-001"}
QueryIds == CreateIds \cup {"INC-404"}

\* IncidentType values, incident_response_system.py:30-36
IncidentTypeValues ==
    {"malware_outbreak", "data_exfiltration", "credential_compromise",
     "insider_threat", "ddos_attack", "supply_chain_compromise"}

\* incident_data dicts: empty; everything present; only the user account;
\* only the compliance implications.
NoData == EmptyDict
FullData ==
    [affected_systems  |-> <<"10.0.1.150", "10.0.1.175">>,
     indicators        |-> [c2_ips               |-> <<"198.51.100.25", "203.0.113.50">>,
                            external_ips         |-> <<"198.51.100.99">>,
                            user_account         |-> "jdoe",
                            compromised_accounts |-> <<"jdoe">>,
                            source_ip            |-> "203.0.113.7",
                            attack_sources       |-> <<"192.0.2.0/24">>,
                            employee_id          |-> "E1001"],
     impact_assessment |-> [compliance_implications |-> <<"GDPR">>]]
AccountData == [indicators |-> [user_account |-> "jdoe"]]
ComplianceData ==
    [affected_systems  |-> <<"10.0.1.150">>,
     impact_assessment |-> [compliance_implications |-> <<"GDPR", "HIPAA">>]]

IncidentInputs == {NoData, FullData, AccountData, ComplianceData}

\* The result string a caller passes along with a status (None is the default).
ResultInput(status) ==
    CASE status = COMPLETED -> "Success"
      [] status = FAILED    -> "error"
      [] status = SKIPPED   -> "prerequisite not met"
      [] OTHER              -> None

StepIds(workflow) == {workflow[i].step_id : i \in 1..Len(workflow)}

\* The steps that no longer look as the generator made them.
Touched(workflow) ==
    {i \in 1..Len(workflow) :
        \/ workflow[i].status # PENDING
        \/ workflow[i].result # None
        \/ workflow[i].execution_time # <<>>}

----------------------------------------------------------------------------
(* IncidentResponseEngine.__init__ (lines 327-334) and _init_database      *)
(* (lines 355-390): an empty store, no call running                        *)

InitEngine ==
    /\ incidents = [id \in {} |-> None]
    /\ response_actions = <<>>
    /\ response_steps = <<>>
    /\ futures = <<>>
    /\ pc = "idle"
    /\ overdue = {}

----------------------------------------------------------------------------
(* Spec: any caller of the engine's four methods *)

Init ==
    /\ active_workflows = [id \in {} |-> <<>>]
    /\ workflow_generators = InitialGenerators
    /\ ret = Returned("__init__", None)
    /\ clock = 0
    /\ issued_ids = <<>>
    /\ report = EmptyDict
    /\ InitEngine

CreateCall ==
    \E incident_id \in CreateIds, incident_type \in IncidentTypeValues,
       incident_data \in IncidentInputs :
        create_workflow(incident_id, incident_type, incident_data)

UpdateCall ==
    \E incident_id \in QueryIds, status \in WorkflowStatus :
        \E step_id \in (IF incident_id \in DOMAIN active_workflows
                        THEN StepIds(active_workflows[incident_id]) ELSE {})
                       \cup {"NO_SUCH_STEP"} :
            /\ incident_id \in DOMAIN active_workflows =>
                   Cardinality(Touched(updated_workflow(active_workflows[incident_id], step_id,
                                                        status, ResultInput(status), clock)))
                       <= MaxTouched
            /\ update_step_status(incident_id, step_id, status, ResultInput(status))

NextStepsCall == \E incident_id \in QueryIds : call_get_next_steps(incident_id)

StatusCall == \E incident_id \in QueryIds : get_workflow_status(incident_id)

Next == CreateCall \/ UpdateCall \/ NextStepsCall \/ StatusCall

Spec == Init /\ [][Next]_vars

----------------------------------------------------------------------------
(* SpecDriven: one workflow, driven as an execution loop would drive it.   *)
(* The driver asks get_next_steps for the ready steps, takes one of them   *)
(* and reports it with update_step_status: as started (IN_PROGRESS) or at  *)
(* once as COMPLETED or FAILED; a started step is later reported COMPLETED *)
(* or FAILED.                                                              *)

DriverCreate ==
    /\ DOMAIN active_workflows = {}
    /\ \E incident_id \in CreateIds, incident_type \in IncidentTypeValues,
          incident_data \in IncidentInputs :
           create_workflow(incident_id, incident_type, incident_data)

DriverTake ==
    \E incident_id \in DOMAIN active_workflows :
        LET ready == get_next_steps(active_workflows, incident_id)
        IN  \E k \in 1..Len(ready), status \in {IN_PROGRESS, COMPLETED, FAILED} :
                update_step_status(incident_id, ready[k].step_id, status, ResultInput(status))

DriverFinish ==
    \E incident_id \in DOMAIN active_workflows :
        LET workflow == active_workflows[incident_id]
        IN  \E i \in 1..Len(workflow), status \in {COMPLETED, FAILED} :
                /\ workflow[i].status = IN_PROGRESS
                /\ update_step_status(incident_id, workflow[i].step_id, status,
                                      ResultInput(status))

NextDriven == DriverCreate \/ DriverTake \/ DriverFinish

SpecDriven == Init /\ [][NextDriven]_vars

----------------------------------------------------------------------------
(* IncidentClassifier, incident_response_system.py:272-325                 *)
(* A text is a sequence of characters; the values of the indicators are    *)
(* kept as the text str() prints for them.                                 *)

IsSubstring(pattern, text) ==
    \E i \in 1..(Len(text) - Len(pattern) + 1) :
        SubSeq(text, i, i + Len(pattern) - 1) = pattern

\* ['.locked', '.encrypted', '.crypto'], line 296
RansomwareExtensions ==
    << <<".", "l", "o", "c", "k", "e", "d">>,
       <<".", "e", "n", "c", "r", "y", "p", "t", "e", "d">>,
       <<".", "c", "r", "y", "p", "t", "o">> >>

\* The indicator keys of the reports, in the order the reports list them, and
\* their spelling.
IndicatorKeys ==
    <<"data_volume",
      "external_ips",
      "compromised_accounts",
      "privilege_escalation",
      "attack_volume",
      "attack_sources",
      "compromised_software",
      "vendor",
      "encrypted_file_extensions",
      "c2_ips",
      "user_account",
      "source_ip">>

\* The indicators whose value is one str; the other values are lists (or the
\* text of a list).  In a text, an address or an account name is one token.
StringKeys == {"user_account", "source_ip"}

KeyText(key) ==
    CASE key = "data_volume" -> <<"d", "a", "t", "a", "_", "v", "o", "l", "u", "m", "e">>
      [] key = "external_ips" -> <<"e", "x", "t", "e", "r", "n", "a", "l", "_", "i", "p", "s">>
      [] key = "compromised_accounts" -> <<"c", "o", "m", "p", "r", "o", "m", "i", "s", "e", "d", "_", "a", "c", "c", "o", "u", "n", "t", "s">>
      [] key = "privilege_escalation" -> <<"p", "r", "i", "v", "i", "l", "e", "g", "e", "_", "e", "s", "c", "a", "l", "a", "t", "i", "o", "n">>
      [] key = "attack_volume" -> <<"a", "t", "t", "a", "c", "k", "_", "v", "o", "l", "u", "m", "e">>
      [] key = "attack_sources" -> <<"a", "t", "t", "a", "c", "k", "_", "s", "o", "u", "r", "c", "e", "s">>
      [] key = "compromised_software" -> <<"c", "o", "m", "p", "r", "o", "m", "i", "s", "e", "d", "_", "s", "o", "f", "t", "w", "a", "r", "e">>
      [] key = "vendor" -> <<"v", "e", "n", "d", "o", "r">>
      [] key = "encrypted_file_extensions" -> <<"e", "n", "c", "r", "y", "p", "t", "e", "d", "_", "f", "i", "l", "e", "_", "e", "x", "t", "e", "n", "s", "i", "o", "n", "s">>
      [] key = "c2_ips" -> <<"c", "2", "_", "i", "p", "s">>
      [] key = "user_account" -> <<"u", "s", "e", "r", "_", "a", "c", "c", "o", "u", "n", "t">>
      [] key = "source_ip" -> <<"s", "o", "u", "r", "c", "e", "_", "i", "p">>

\* repr of a dict entry, 'key': value
entry_text(indicators, key) ==
    <<"'">> \o KeyText(key) \o <<"'", ":", " ">>
        \o (IF key \in StringKeys THEN <<"'", indicators[key], "'">> ELSE indicators[key])

\* The entries of str(indicators) from the k-th key on; `first` tells whether
\* an entry has been written yet (entries are joined by ", ").
RECURSIVE entries_text(_, _, _)
entries_text(indicators, k, first) ==
    IF k > Len(IndicatorKeys) THEN <<>>
    ELSE IF IndicatorKeys[k] \notin DOMAIN indicators
         THEN entries_text(indicators, k + 1, first)
         ELSE (IF first THEN <<>> ELSE <<",", " ">>)
              \o entry_text(indicators, IndicatorKeys[k])
              \o entries_text(indicators, k + 1, FALSE)

\* str(indicators)
str(indicators) == <<"{">> \o entries_text(indicators, 1, TRUE) \o <<"}">>

\* Mutant of determine_incident_type: the credential test comes before the
\* exfiltration test.
determine_incident_type_swapped(data) ==
    LET indicators == Get(data, "indicators", EmptyDict)
    IN  IF \E e \in 1..Len(RansomwareExtensions) :
               IsSubstring(RansomwareExtensions[e], str(indicators))
        THEN "malware_outbreak"
        ELSE IF "compromised_accounts" \in DOMAIN indicators
                \/ "privilege_escalation" \in DOMAIN indicators
        THEN "credential_compromise"
        ELSE IF "data_volume" \in DOMAIN indicators \/ "external_ips" \in DOMAIN indicators
        THEN "data_exfiltration"
        ELSE IF "attack_volume" \in DOMAIN indicators \/ "attack_sources" \in DOMAIN indicators
        THEN "ddos_attack"
        ELSE IF "compromised_software" \in DOMAIN indicators \/ "vendor" \in DOMAIN indicators
        THEN "supply_chain_compromise"
        ELSE "insider_threat"

\* _determine_incident_type (lines 292-307)
determine_incident_type(data) ==
    LET indicators == Get(data, "indicators", EmptyDict)
    IN  IF \E e \in 1..Len(RansomwareExtensions) :
               IsSubstring(RansomwareExtensions[e], str(indicators))
        THEN "malware_outbreak"
        ELSE IF "data_volume" \in DOMAIN indicators \/ "external_ips" \in DOMAIN indicators
        THEN "data_exfiltration"
        ELSE IF "compromised_accounts" \in DOMAIN indicators
                \/ "privilege_escalation" \in DOMAIN indicators
        THEN "credential_compromise"
        ELSE IF "attack_volume" \in DOMAIN indicators \/ "attack_sources" \in DOMAIN indicators
        THEN "ddos_attack"
        ELSE IF "compromised_software" \in DOMAIN indicators \/ "vendor" \in DOMAIN indicators
        THEN "supply_chain_compromise"
        ELSE "insider_threat"

\* The values of a report that are not a str: null and the number 3.
NonStrings == {None, "#3"}

\* str.lower() on the severity strings of the reports
lower(s) ==
    CASE s = "HIGH"     -> "high"
      [] s = "Critical" -> "critical"
      [] OTHER          -> s

\* _determine_severity (lines 309-320)
determine_severity(data) ==
    LET severity_str == lower(Get(data, "severity", "medium"))
    IN  IF severity_str \in {"low", "medium", "high", "critical"}
        THEN severity_str
        ELSE "medium"

\* _determine_severity (line 311): .lower() is looked up on whatever value
\* the report holds under 'severity'; a value that is no str has no such
\* attribute and the call raises AttributeError.
determine_severity_raises(data) == Get(data, "severity", "medium") \in NonStrings

\* _generate_incident_id (lines 322-325): "INC-" and the time to the second
generate_incident_id(now) == <<"INC", now \div TicksPerSecond>>

\* classify_incident (lines 277-290), called at time `now`
classify_incident(data, now) ==
    [incident_id      |-> generate_incident_id(now),
     incident_type    |-> determine_incident_type(data),
     severity         |-> determine_severity(data),
     detection_time   |-> now,
     affected_systems |-> Get(data, "affected_systems", <<>>),
     indicators       |-> Get(data, "indicators", EmptyDict),
     description      |-> Get(data, "description", ""),
     status           |-> "active"]

----------------------------------------------------------------------------
(* SpecClassifier: classify_incident called on a report, again and again,  *)
(* as time passes                                                          *)

\* What str() prints for the value of an indicator that holds no file name.
PlainText == <<"1">>

\* File names and extensions an indicator value may hold.
FileTexts ==
    { <<"[", "'", "a", ".", "l", "o", "c", "k", "e", "d", "'", "]">>,
      <<"[", "'", ".", "e", "n", "c", "r", "y", "p", "t", "e", "d", "'", "]">>,
      <<"[", "'", "x", ".", "c", "r", "y", "p", "t", "o", "'", "]">>,
      <<"[", "'", ".", "l", "o", "c", "k", "'", ",", " ", "'", ".", "d", "o", "c", "x", "'", "]">>,
      <<"[", "'", "l", "o", "c", "k", "e", "d", "'", "]">> }

MarkerKeys ==
    {"data_volume", "external_ips", "compromised_accounts", "privilege_escalation",
     "attack_volume", "attack_sources", "compromised_software", "vendor"}

\* The indicators dict with the marker keys `keys` and, unless `file` is
\* empty, the entry 'encrypted_file_extensions': file.
IndicatorsWith(keys, file) ==
    [k \in keys \cup (IF file = <<>> THEN {} ELSE {"encrypted_file_extensions"}) |->
        IF k = "encrypted_file_extensions" THEN file ELSE PlainText]

SeverityInputs ==
    {"low", "medium", "high", "critical", "HIGH", "Critical", "urgent", ""} \cup NonStrings

\* Raw reports: every set of marker keys with every file text; a report with
\* no indicators at all; reports with a severity.
Reports ==
    {[indicators |-> IndicatorsWith(keys, file)] :
        keys \in SUBSET MarkerKeys, file \in FileTexts \cup {<<>>}}
    \cup {[description |-> "no indicators"], [indicators |-> EmptyDict]}
    \cup {[indicators |-> IndicatorsWith({"vendor"}, <<>>), severity |-> sev,
           affected_systems |-> <<"10.0.1.150">>] : sev \in SeverityInputs}

InitClassifier ==
    /\ active_workflows = [id \in {} |-> <<>>]
    /\ workflow_generators = InitialGenerators
    /\ ret = Returned("__init__", None)
    /\ clock = 0
    /\ issued_ids = <<>>
    /\ report \in Reports
    /\ InitEngine

Tick ==
    /\ clock < MaxClock
    /\ clock' = clock + 1
    /\ UNCHANGED <<active_workflows, workflow_generators, ret, issued_ids, report, engine_vars>>

ClassifyCall ==
    /\ Len(issued_ids) < MaxCalls
    /\ IF determine_severity_raises(report)
       THEN /\ ret' = Raised("classify_incident", "AttributeError")
            /\ UNCHANGED issued_ids
       ELSE LET incident == classify_incident(report, clock)
            IN  /\ ret' = Returned("classify_incident", incident)
                /\ issued_ids' = Append(issued_ids, incident.incident_id)
    /\ UNCHANGED <<active_workflows, workflow_generators, clock, report, engine_vars>>

NextClassifier == Tick \/ ClassifyCall

SpecClassifier == InitClassifier /\ [][NextClassifier]_vars

----------------------------------------------------------------------------
(* SpecCyclic: the engine with the deliberately cyclic generator registered *)
(* under the type "cyclic_test", and any caller of its four methods         *)

InitCyclic ==
    /\ active_workflows = [id \in {} |-> <<>>]
    /\ workflow_generators =
           [t \in DOMAIN InitialGenerators \cup {"cyclic_test"} |->
               IF t = "cyclic_test" THEN "CyclicWorkflow" ELSE InitialGenerators[t]]
    /\ ret = Returned("__init__", None)
    /\ clock = 0
    /\ issued_ids = <<>>
    /\ report = EmptyDict
    /\ InitEngine

CreateCyclicCall ==
    \E incident_id \in CreateIds, incident_data \in IncidentInputs :
        create_workflow(incident_id, "cyclic_test", incident_data)

NextCyclic == CreateCyclicCall \/ CreateCall \/ UpdateCall \/ NextStepsCall \/ StatusCall

SpecCyclic == InitCyclic /\ [][NextCyclic]_vars

----------------------------------------------------------------------------
(* IncidentResponseEngine, incident_response_system.py:326-706: the plan   *)

\* ResponseAction (lines 38-44)
ISOLATE_SYSTEM == "isolate_system"
BLOCK_IP == "block_ip"
COLLECT_EVIDENCE == "collect_evidence"
DISABLE_ACCOUNT == "disable_account"
QUARANTINE_FILE == "quarantine_file"
NOTIFY_STAKEHOLDERS == "notify_stakeholders"

\* ResponseStep (lines 57-64): a step of a plan carries no more than these
\* six fields
ResponseStep(action, target, parameters) ==
    [action         |-> action,
     target         |-> target,
     parameters     |-> parameters,
     status         |-> "pending",
     execution_time |-> <<>>,
     result         |-> None]

\* ip.replace(".", "_") and, for an attack source, .replace("/", "_") after
\* it, on the addresses of the reports
replace_dots(ip) ==
    CASE ip = "198.51.100.25" -> "198_51_100_25"
      [] ip = "203.0.113.50"  -> "203_0_113_50"
      [] ip = "198.51.100.99" -> "198_51_100_99"
      [] ip = "203.0.113.7"   -> "203_0_113_7"
      [] ip = "192.0.2.0/24"  -> "192_0_2_0/24"

replace_slash(source) ==
    CASE source = "192_0_2_0/24" -> "192_0_2_0_24"
      [] OTHER                   -> source

\* _generate_response_plan, the steps of the incident's type (lines 474-556)
typed_steps(incident) ==
    LET systems    == incident.affected_systems
        indicators == incident.indicators
    IN      CASE incident.incident_type = "malware_outbreak" ->
                   LET c2_ips == Get(indicators, "c2_ips", <<>>)
                   IN  [i \in 1..Len(systems) |->
                           ResponseStep(ISOLATE_SYSTEM, systems[i],
                                        [method |-> "edr_isolation"])]
                       \o [i \in 1..Len(c2_ips) |->
                              ResponseStep(BLOCK_IP, c2_ips[i],
                                           [rule_name |-> <<"BLOCK_C2_", replace_dots(c2_ips[i])>>])]
                       \o [i \in 1..Len(systems) |->
                              ResponseStep(COLLECT_EVIDENCE, systems[i],
                                           [evidence_types |-> <<"memory_dump", "disk_image">>])]
              [] incident.incident_type = "data_exfiltration" ->
                   LET external_ips == Get(indicators, "external_ips", <<>>)
                       user_account == Get(indicators, "user_account", None)
                   IN  [i \in 1..Len(external_ips) |->
                           ResponseStep(BLOCK_IP, external_ips[i],
                                        [rule_name |-> <<"BLOCK_EXFIL_",
                                                         replace_dots(external_ips[i])>>])]
                       \o [i \in 1..Len(systems) |->
                              ResponseStep(ISOLATE_SYSTEM, systems[i],
                                           [method |-> "network_isolation"])]
                       \o (IF Truthy(user_account)
                           THEN <<ResponseStep(DISABLE_ACCOUNT, user_account,
                                               [domain |-> "company.local"])>>
                           ELSE <<>>)
              [] incident.incident_type = "credential_compromise" ->
                   LET compromised_accounts == Get(indicators, "compromised_accounts", <<>>)
                       source_ip            == Get(indicators, "source_ip", None)
                   IN  [i \in 1..Len(compromised_accounts) |->
                           ResponseStep(DISABLE_ACCOUNT, compromised_accounts[i],
                                        [domain |-> "company.local"])]
                       \o (IF Truthy(source_ip)
                           THEN <<ResponseStep(BLOCK_IP, source_ip,
                                               [rule_name |-> <<"BLOCK_ATTACK_",
                                                                replace_dots(source_ip)>>])>>
                           ELSE <<>>)
              [] incident.incident_type = "ddos_attack" ->
                   LET attack_sources == Get(indicators, "attack_sources", <<>>)
                   IN  [i \in 1..Len(attack_sources) |->
                           ResponseStep(BLOCK_IP, attack_sources[i],
                                        [rule_name |-> <<"BLOCK_DDOS_",
                                             replace_slash(replace_dots(attack_sources[i]))>>])]
              [] OTHER -> <<>>

\* _generate_response_plan, the notification step (lines 558-563)
notification_step(incident) ==
    ResponseStep(NOTIFY_STAKEHOLDERS, "security_team",
                 [incident_id |-> incident.incident_id, severity |-> incident.severity])

\* _generate_response_plan (lines 472-565)
generate_response_plan(incident) ==
    typed_steps(incident) \o <<notification_step(incident)>>

----------------------------------------------------------------------------
(* IncidentResponseEngine: the store (sqlite, lines 355-390)               *)

\* json.dumps of a list or a dict, and json.loads of what it wrote
json_dumps(value) == <<"json", value>>
json_loads(text) == text[2]

\* datetime.isoformat()
isoformat(t) == <<"iso", t>>

\* _store_incident (lines 448-470): the row of the incident
incident_row(incident) ==
    [incident_id      |-> incident.incident_id,
     incident_type    |-> incident.incident_type,
     severity         |-> incident.severity,
     detection_time   |-> isoformat(incident.detection_time),
     affected_systems |-> json_dumps(incident.affected_systems),
     indicators       |-> json_dumps(incident.indicators),
     description      |-> incident.description,
     status           |-> incident.status]

\* _store_response_action (lines 645-666): INSERT of one row; action_id is
\* AUTOINCREMENT, no other column is a key
store_response_action(rows, incident_id, step) ==
    Append(rows,
           [action_id      |-> Len(rows) + 1,
            incident_id    |-> incident_id,
            action_type    |-> step.action,
            target         |-> step.target,
            parameters     |-> json_dumps(step.parameters),
            status         |-> step.status,
            execution_time |-> IF step.execution_time = <<>> THEN None
                               ELSE isoformat(step.execution_time[1]),
            result         |-> step.result])

\* SELECT * FROM response_actions WHERE incident_id = ? (line 681), the rows
\* from the k-th on
RECURSIVE select_actions(_, _, _)
select_actions(rows, incident_id, k) ==
    IF k > Len(rows) THEN <<>>
    ELSE (IF rows[k].incident_id = incident_id THEN <<rows[k]>> ELSE <<>>)
         \o select_actions(rows, incident_id, k + 1)

\* get_incident_status (lines 668-706), the value returned
incident_status(table, rows, incident_id) ==
    IF incident_id \notin DOMAIN table
    THEN [error |-> "Incident not found"]
    ELSE LET incident_row_ == table[incident_id]
             action_rows   == select_actions(rows, incident_id, 1)
         IN  [incident_id      |-> incident_row_.incident_id,
              incident_type    |-> incident_row_.incident_type,
              severity         |-> incident_row_.severity,
              detection_time   |-> incident_row_.detection_time,
              affected_systems |-> json_loads(incident_row_.affected_systems),
              status           |-> incident_row_.status,
              response_actions |->
                  [k \in 1..Len(action_rows) |->
                      [action_type    |-> action_rows[k].action_type,
                       target         |-> action_rows[k].target,
                       status         |-> action_rows[k].status,
                       execution_time |-> action_rows[k].execution_time,
                       result         |-> action_rows[k].result]]]

----------------------------------------------------------------------------
(* IncidentResponseEngine: the execution of a plan                         *)

\* ThreadPoolExecutor(max_workers=5), line 570
max_workers == 5

\* A concurrent.futures.Future: PENDING until a worker thread takes its work
\* item, RUNNING while _execute_response_step runs, FINISHED with what it
\* returned or raised.
Future(state, result, exception) ==
    [state |-> state, result |-> result, exception |-> exception]

\* _execute_response_step (lines 593-643): the future once the step has run;
\* `success` is what the EDR, switch or firewall manager returned.  The
\* forensics collector only builds the path of the evidence, and returns it.
execute_response_step(incident_id, step, success) ==
    CASE step.action = ISOLATE_SYSTEM ->
           IF Get(step.parameters, "method", "edr_isolation")
                  \in {"edr_isolation", "network_isolation"}
           THEN Future("FINISHED", IF success THEN "Success" ELSE "Failed", None)
           ELSE Future("FINISHED", None, "ValueError")
      [] step.action = BLOCK_IP ->
           Future("FINISHED", IF success THEN "Success" ELSE "Failed", None)
      [] step.action = COLLECT_EVIDENCE ->
           Future("FINISHED", "memory_dump: path; disk_image: path", None)
      [] step.action = DISABLE_ACCOUNT ->
           Future("FINISHED", "Account jdoe disabled", None)   \* the one account of the reports
      [] step.action = NOTIFY_STAKEHOLDERS ->
           Future("FINISHED", "Notifications sent", None)
      [] OTHER ->
           Future("FINISHED", None, "ValueError")

\* The actions whose outcome a manager decides.
ManagerActions == {ISOLATE_SYSTEM, BLOCK_IP}

Running == {i \in 1..Len(futures) : futures[i].state = "RUNNING"}

\* The incident the running (or the last) process_incident call classified.
current_incident_id == issued_ids[Len(issued_ids)]

\* A null where a list is expected; lists hold host names, and None is none.
NullList == <<None>>

\* _generate_response_plan raises: `for system in incident.affected_systems`
\* (lines 478 and 514) on an incident whose affected_systems is null raises
\* TypeError.
generate_response_plan_raises(incident) ==
    /\ incident.incident_type \in {"malware_outbreak", "data_exfiltration"}
    /\ incident.affected_systems = NullList

\* The table incidents after the INSERT of _store_incident (lines 448-470).
store_incident(table, incident) ==
    [id \in DOMAIN table \cup {incident.incident_id} |->
        IF id = incident.incident_id THEN incident_row(incident) ELSE table[id]]

\* Mutant of store_incident_raises: INSERT OR REPLACE, which never raises.
store_incident_replaces(table, incident) == FALSE

\* The INSERT of _store_incident raises sqlite3.IntegrityError when the table
\* holds a row with the incident_id, its PRIMARY KEY (line 362).
store_incident_raises(table, incident) == incident.incident_id \in DOMAIN table

\* Mutant of process_incident: the plan is generated before the incident is
\* stored, so an incident whose plan cannot be generated is not stored.
process_incident_plan_first ==
    /\ pc = "idle"
    /\ futures' = <<>>
    /\ overdue' = {}
    /\ IF determine_severity_raises(report)
       THEN /\ ret' = Raised("process_incident", "AttributeError")
            /\ response_steps' = <<>>
            /\ UNCHANGED <<issued_ids, incidents, response_actions, pc>>
       ELSE LET incident == classify_incident(report, clock)
            IN  /\ issued_ids' = Append(issued_ids, incident.incident_id)
                /\ IF generate_response_plan_raises(incident)
                   THEN /\ ret' = Raised("process_incident", "TypeError")
                        /\ response_steps' = <<>>
                        /\ UNCHANGED <<incidents, response_actions, pc>>
                   ELSE IF store_incident_raises(incidents, incident)
                   THEN /\ ret' = Raised("process_incident", "IntegrityError")
                        /\ response_steps' = <<>>
                        /\ UNCHANGED <<incidents, response_actions, pc>>
                   ELSE /\ incidents' = store_incident(incidents, incident)
                        /\ response_steps' = generate_response_plan(incident)
                        /\ pc' = "submit"
                        /\ UNCHANGED <<ret, response_actions>>
    /\ UNCHANGED <<active_workflows, workflow_generators, clock, report>>

\* process_incident (lines 426-440), up to the plan: classify the report,
\* store the incident, generate the plan.  classify_incident may raise, so
\* may the INSERT when the incident_id (the PRIMARY KEY) is stored already,
\* and so may _generate_response_plan; the except clause logs and raises
\* again.  The plan and the futures are locals of the call.
process_incident ==
    /\ pc = "idle"
    /\ futures' = <<>>
    /\ overdue' = {}
    /\ IF determine_severity_raises(report)
       THEN /\ ret' = Raised("process_incident", "AttributeError")
            /\ response_steps' = <<>>
            /\ UNCHANGED <<issued_ids, incidents, response_actions, pc>>
       ELSE LET incident == classify_incident(report, clock)
            IN  /\ issued_ids' = Append(issued_ids, incident.incident_id)
                /\ IF store_incident_raises(incidents, incident)
                   THEN /\ ret' = Raised("process_incident", "IntegrityError")
                        /\ response_steps' = <<>>
                        /\ UNCHANGED <<incidents, response_actions, pc>>
                   ELSE IF generate_response_plan_raises(incident)
                   THEN /\ incidents' = store_incident(incidents, incident)
                        /\ ret' = Raised("process_incident", "TypeError")
                        /\ response_steps' = <<>>
                        /\ UNCHANGED <<response_actions, pc>>
                   ELSE /\ incidents' = store_incident(incidents, incident)
                        /\ response_steps' = generate_response_plan(incident)
                        /\ pc' = "submit"
                        /\ UNCHANGED <<ret, response_actions>>
    /\ UNCHANGED <<active_workflows, workflow_generators, clock, report>>

\* _execute_response_plan, lines 573-575: the next step is submitted to the
\* executor
submit ==
    /\ pc = "submit"
    /\ Len(futures) < Len(response_steps)
    /\ futures' = Append(futures, Future("PENDING", None, None))
    /\ UNCHANGED <<active_workflows, workflow_generators, ret, clock, issued_ids, report,
                   incidents, response_actions, response_steps, pc, overdue>>

\* Mutant of worker_start: the pool starts a thread for every work item.
worker_start_unbounded ==
    \E i \in 1..Len(futures) :
        /\ futures[i].state = "PENDING"
        /\ \A j \in 1..(i - 1) : futures[j].state # "PENDING"
        /\ futures' = [futures EXCEPT ![i].state = "RUNNING"]
        /\ UNCHANGED <<active_workflows, workflow_generators, ret, clock, issued_ids, report,
                       incidents, response_actions, response_steps, pc, overdue>>

\* A worker thread of the pool takes the oldest work item of the queue; the
\* pool has at most max_workers threads, each running one item at a time.
worker_start ==
    \E i \in 1..Len(futures) :
        /\ futures[i].state = "PENDING"
        /\ \A j \in 1..(i - 1) : futures[j].state # "PENDING"
        /\ Cardinality(Running) < max_workers
        /\ futures' = [futures EXCEPT ![i].state = "RUNNING"]
        /\ UNCHANGED <<active_workflows, workflow_generators, ret, clock, issued_ids, report,
                       incidents, response_actions, response_steps, pc, overdue>>

\* The step a worker thread runs returns or raises.
worker_finish ==
    \E i \in Running :
        \E success \in (IF response_steps[i].action \in ManagerActions
                        THEN BOOLEAN ELSE {TRUE}) :
            /\ futures' = [futures EXCEPT
                              ![i] = execute_response_step(current_incident_id,
                                                           response_steps[i], success)]
            /\ UNCHANGED <<active_workflows, workflow_generators, ret, clock, issued_ids,
                           report, incidents, response_actions, response_steps, pc, overdue>>

\* 300 seconds (the timeout of line 579) pass while a step is running.
timeout_elapses ==
    \E i \in Running \ overdue :
        /\ Cardinality(overdue) < MaxOverdue
        /\ overdue' = overdue \cup {i}
        /\ UNCHANGED <<active_workflows, workflow_generators, ret, clock, issued_ids, report,
                       incidents, response_actions, response_steps, futures, pc>>

\* _execute_response_plan, line 577: as_completed is handed the list of
\* (future, step) pairs, not of futures; on its first next() it takes the
\* lock of each item, future._condition, which a tuple does not have, and
\* raises AttributeError.  The body of the loop (lines 578-591) is never
\* entered.  The exception leaves the with block, whose exit waits for the
\* work items: executor.shutdown(wait=True).
as_completed ==
    /\ pc = "submit"
    /\ Len(futures) = Len(response_steps)
    /\ pc' = "shutdown"
    /\ UNCHANGED <<active_workflows, workflow_generators, ret, clock, issued_ids, report,
                   incidents, response_actions, response_steps, futures, overdue>>

\* Every work item has run: the AttributeError leaves _execute_response_plan
\* and process_incident (lines 444-446).
process_incident_raises ==
    /\ pc = "shutdown"
    /\ \A i \in 1..Len(futures) : futures[i].state = "FINISHED"
    /\ pc' = "idle"
    /\ ret' = Raised("process_incident", "AttributeError")
    /\ UNCHANGED <<active_workflows, workflow_generators, clock, issued_ids, report,
                   incidents, response_actions, response_steps, futures, overdue>>

\* _store_response_action(incident_id, step), called with a step of the plan
\* as it is once its outcome is set.
call_store_response_action(incident_id, i, status) ==
    /\ pc = "idle"
    /\ response_actions' =
           store_response_action(response_actions, incident_id,
                                 [response_steps[i] EXCEPT
                                     !.status = status,
                                     !.result = IF status = "completed" THEN "Success"
                                                ELSE "error",
                                     !.execution_time = <<clock>>])
    /\ ret' = Returned("_store_response_action", None)
    /\ UNCHANGED <<active_workflows, workflow_generators, clock, issued_ids, report,
                   incidents, response_steps, futures, pc, overdue>>

\* get_incident_status (lines 668-706)
get_incident_status(incident_id) ==
    /\ pc = "idle"
    /\ ret' = Returned("get_incident_status",
                       incident_status(incidents, response_actions, incident_id))
    /\ UNCHANGED <<active_workflows, workflow_generators, clock, issued_ids, report,
                   engine_vars>>

----------------------------------------------------------------------------
(* SpecResponse: process_incident called on a report, the worker threads   *)
(* of its executor, and a caller of _store_response_action and             *)
(* get_incident_status between the calls                                   *)

Systems == <<"10.0.1.150", "10.0.1.175">>
C2Ips == <<"198.51.100.25", "203.0.113.50">>
LockedFiles == <<"[", "'", ".", "l", "o", "c", "k", "e", "d", "'", "]">>

\* Raw reports of each incident type: ransomware on two systems with two C2
\* addresses, on one system with none, and on no system; one report of each
\* other type; a report whose severity is null.
RansomwareReport ==
    [affected_systems |-> Systems,
     indicators       |-> [encrypted_file_extensions |-> LockedFiles, c2_ips |-> C2Ips],
     severity         |-> "critical"]
RansomwareOneSystem ==
    [affected_systems |-> <<"10.0.1.150">>,
     indicators       |-> [encrypted_file_extensions |-> LockedFiles],
     severity         |-> "high"]
RansomwareNoSystem == [indicators |-> [encrypted_file_extensions |-> LockedFiles]]
ExfiltrationReport ==
    [affected_systems |-> <<"10.0.1.150">>,
     indicators       |-> [external_ips |-> <<"198.51.100.99">>, user_account |-> "jdoe"],
     severity         |-> "high"]
CredentialReport ==
    [indicators |-> [compromised_accounts |-> <<"jdoe">>, source_ip |-> "203.0.113.7"]]
DDoSReport == [indicators |-> [attack_sources |-> <<"192.0.2.0/24">>], severity |-> "urgent"]
InsiderReport == [description |-> "badge misuse", affected_systems |-> <<"10.0.1.150">>]
SupplyChainReport == [indicators |-> [vendor |-> PlainText], severity |-> "low"]
NullSeverityReport == [indicators |-> [vendor |-> PlainText], severity |-> None]
NullSystemsReport ==
    [affected_systems |-> NullList,
     indicators       |-> [encrypted_file_extensions |-> LockedFiles, c2_ips |-> C2Ips]]

ResponseReports ==
    {RansomwareReport, RansomwareOneSystem, RansomwareNoSystem, ExfiltrationReport,
     CredentialReport, DDoSReport, InsiderReport, SupplyChainReport, NullSeverityReport,
     NullSystemsReport}

\* An incident id the store never holds.
UnknownIncidentId == <<"INC", 404>>

InitResponse ==
    /\ active_workflows = [id \in {} |-> <<>>]
    /\ workflow_generators = InitialGenerators
    /\ ret = Returned("__init__", None)
    /\ clock = 0
    /\ issued_ids = <<>>
    /\ report \in ResponseReports
    /\ InitEngine

\* Time passes between the calls.
TickIdle == pc = "idle" /\ Tick

\* The caller hands its report to process_incident, once.
ProcessOnce == issued_ids = <<>> /\ process_incident

SaveCall ==
    /\ response_steps # <<>>
    /\ Len(response_actions) < MaxRows
    /\ \E i \in {1, Len(response_steps)}, status \in {"completed", "failed"} :
           call_store_response_action(current_incident_id, i, status)

IncidentStatusCall ==
    \E incident_id \in DOMAIN incidents \cup {UnknownIncidentId} :
        get_incident_status(incident_id)

NextResponse ==
    \/ TickIdle
    \/ ProcessOnce
    \/ submit
    \/ worker_start
    \/ worker_finish
    \/ timeout_elapses
    \/ as_completed
    \/ process_incident_raises
    \/ SaveCall
    \/ IncidentStatusCall

SpecResponse == InitResponse /\ [][NextResponse]_vars

----------------------------------------------------------------------------
(* SpecOrchestrated: one incident handled with both engines.  The caller   *)
(* hands a report to process_incident, then creates the WorkflowEngine     *)
(* workflow of the stored incident (same incident id, the stored type, the *)
(* same report) and drives it as in SpecDriven.                            *)

OrchestratorCreate ==
    /\ pc = "idle"
    /\ issued_ids # <<>>
    /\ current_incident_id \in DOMAIN incidents
    /\ DOMAIN active_workflows = {}
    /\ create_workflow(current_incident_id, incidents[current_incident_id].incident_type,
                       report)

NextOrchestrated ==
    \/ ProcessOnce
    \/ submit
    \/ worker_start
    \/ worker_finish
    \/ as_completed
    \/ process_incident_raises
    \/ OrchestratorCreate
    \/ DriverTake
    \/ DriverFinish

SpecOrchestrated == InitResponse /\ [][NextOrchestrated]_vars

----------------------------------------------------------------------------
(* SpecRepeated: process_incident called on the report again and again,    *)
(* in the same second or later                                             *)

ProcessCall == Len(issued_ids) < MaxProcess /\ process_incident

NextRepeated ==
    \/ TickIdle
    \/ ProcessCall
    \/ submit
    \/ worker_start
    \/ worker_finish
    \/ as_completed
    \/ process_incident_raises

SpecRepeated == InitResponse /\ [][NextRepeated]_vars

----------------------------------------------------------------------------
(* Vocabulary of the properties *)

Range(seq) == {seq[i] : i \in 1..Len(seq)}

Terminal == {COMPLETED, FAILED, SKIPPED}

\* The steps of `workflow` whose step_id is `step_id`.
StepsNamed(workflow, step_id) == {j \in 1..Len(workflow) : workflow[j].step_id = step_id}

\* Step i is pending and each of its prerequisites is a completed step of the workflow.
Ready(workflow, i) ==
    /\ workflow[i].status = PENDING
    /\ \A p \in Range(workflow[i].prerequisites) :
           \E j \in StepsNamed(workflow, p) : workflow[j].status = COMPLETED

\* The driver has nothing left to do: no step is ready and none is running.
Quiescent(incident_id) ==
    /\ incident_id \in DOMAIN active_workflows
    /\ get_next_steps(active_workflows, incident_id) = <<>>
    /\ \A i \in 1..Len(active_workflows[incident_id]) :
           active_workflows[incident_id][i].status # IN_PROGRESS

\* Steps that can be put in a topological order: repeatedly take the steps all
\* of whose prerequisites are steps already taken.
RECURSIVE Ordered(_, _)
Ordered(workflow, done) ==
    LET more == {i \in (1..Len(workflow)) \ done :
                    \A p \in Range(workflow[i].prerequisites) :
                        \E j \in done : workflow[j].step_id = p}
    IN  IF more = {} THEN done ELSE Ordered(workflow, done \cup more)

HasTopologicalOrder(workflow) == Ordered(workflow, {}) = 1..Len(workflow)

----------------------------------------------------------------------------
(* C1 .. C8: the dependency scheduler *)

\* C1: for every registered workflow and every assignment of statuses,
\* get_next_steps returns exactly the steps that are PENDING and whose every
\* prerequisite is a COMPLETED step of the same workflow, each once and in
\* workflow order; for an unknown incident id it returns nothing.
C1_NextStepsExactlyReady ==
    \A incident_id \in QueryIds :
        LET returned == get_next_steps(active_workflows, incident_id)
        IN  IF incident_id \notin DOMAIN active_workflows THEN returned = <<>>
            ELSE LET workflow == active_workflows[incident_id]
                 IN  /\ \A i \in 1..Len(workflow) :
                            (workflow[i] \in Range(returned)) <=> Ready(workflow, i)
                     /\ Range(returned) \subseteq Range(workflow)
                     /\ Cardinality(Range(returned)) = Len(returned)

\* C1 witness: a get_next_steps call returned a step that has a prerequisite
\* (which is completed) while another pending step was held back.
C1_Witness ==
    /\ ret.op = "get_next_steps"
    /\ \E id \in DOMAIN active_workflows :
           LET workflow == active_workflows[id]
           IN  /\ ret.value = get_next_steps(active_workflows, id)
               /\ \E k \in 1..Len(ret.value) : Len(ret.value[k].prerequisites) > 0
               /\ \E i \in 1..Len(workflow) :
                      workflow[i].status = PENDING /\ workflow[i] \notin Range(ret.value)

\* C2 (as claimed): once the driver has nothing left to do, every step that
\* lists a FAILED or SKIPPED step as a prerequisite has been moved to SKIPPED.
C2_DependentsOfFailedAreSkipped ==
    \A incident_id \in DOMAIN active_workflows :
        Quiescent(incident_id) =>
            LET workflow == active_workflows[incident_id]
            IN  \A i \in 1..Len(workflow) :
                    (\E p \in Range(workflow[i].prerequisites) :
                        \E j \in StepsNamed(workflow, p) :
                            workflow[j].status \in {FAILED, SKIPPED})
                    => workflow[i].status = SKIPPED

\* C3 (as claimed): a driven workflow ends with every step terminal: when no
\* step is ready and none is running, every step is completed, failed or skipped.
C3_DrivenWorkflowTerminates ==
    \A incident_id \in DOMAIN active_workflows :
        Quiescent(incident_id) =>
            \A i \in 1..Len(active_workflows[incident_id]) :
                active_workflows[incident_id][i].status \in Terminal

\* C4 (as claimed): an update_step_status call never moves a step back to
\* PENDING and never changes the status of a completed, failed or skipped step.
C4_StatusMonotonic ==
    [][ret'.op = "update_step_status" =>
          \A incident_id \in DOMAIN active_workflows :
              \A i \in 1..Len(active_workflows[incident_id]) :
                  LET old == active_workflows[incident_id][i].status
                      new == active_workflows'[incident_id][i].status
                  IN  /\ old # PENDING => new # PENDING
                      /\ old \in Terminal => new = old]_vars

\* C5 (as claimed): in every reachable state a step that is IN_PROGRESS has
\* all of its prerequisites COMPLETED.
C5_InProgressAfterPrerequisites ==
    \A incident_id \in DOMAIN active_workflows :
        LET workflow == active_workflows[incident_id]
        IN  \A i \in 1..Len(workflow) :
                workflow[i].status = IN_PROGRESS =>
                    \A p \in Range(workflow[i].prerequisites) :
                        \E j \in StepsNamed(workflow, p) : workflow[j].status = COMPLETED

\* C6 (as claimed): creating a workflow from a step set whose prerequisite
\* relation has a cycle fails: no call of create_workflow returns such a step
\* set and none is registered in active_workflows.
C6_CyclicStepSetRejected ==
    /\ (ret.op = "create_workflow" /\ ret.raised = None) => HasTopologicalOrder(ret.value)
    /\ \A incident_id \in DOMAIN active_workflows :
           HasTopologicalOrder(active_workflows[incident_id])

\* C7: every workflow a generator returns has each prerequisite id among the
\* step ids of the same workflow, and its prerequisite relation has a
\* topological order.
C7_PrerequisitesResolveAndAcyclic ==
    \A incident_id \in DOMAIN active_workflows :
        LET workflow == active_workflows[incident_id]
        IN  /\ \A i \in 1..Len(workflow) :
                   Range(workflow[i].prerequisites) \subseteq StepIds(workflow)
            /\ HasTopologicalOrder(workflow)
            /\ Cardinality(StepIds(workflow)) = Len(workflow)

\* C7 witness: the data-exfiltration workflow with the optional EXFIL_007 and
\* without the optional EXFIL_003 has been created.
C7_Witness ==
    /\ ret.op = "create_workflow"
    /\ ret.raised = None
    /\ "EXFIL_007" \in StepIds(ret.value)
    /\ "EXFIL_003" \notin StepIds(ret.value)

\* C8 (as claimed): the per-status counts get_workflow_status reports sum to
\* total_steps.
C8_StatusCountsSumToTotal ==
    (ret.op = "get_workflow_status" /\ "total_steps" \in DOMAIN ret.value) =>
        ret.value.completed + ret.value.failed + ret.value.in_progress + ret.value.pending
            = ret.value.total_steps

----------------------------------------------------------------------------
(* C9, C10: the classifier *)

\* C9 (as claimed): any two calls of classify_incident return different
\* incident ids.
C9_IncidentIdsDistinct ==
    \A i, j \in 1..Len(issued_ids) : i # j => issued_ids[i] # issued_ids[j]

\* The categories in the order the classifier is to try them, and what marks
\* a report as one of them.
CategoryOrder ==
    <<"malware_outbreak", "data_exfiltration", "credential_compromise", "ddos_attack",
      "supply_chain_compromise">>

HasMarkers(category, indicators) ==
    CASE category = "malware_outbreak" ->
             \E k \in DOMAIN indicators, e \in 1..Len(RansomwareExtensions) :
                 IsSubstring(RansomwareExtensions[e], indicators[k])
      [] category = "data_exfiltration" ->
             {"data_volume", "external_ips"} \cap DOMAIN indicators # {}
      [] category = "credential_compromise" ->
             {"compromised_accounts", "privilege_escalation"} \cap DOMAIN indicators # {}
      [] category = "ddos_attack" ->
             {"attack_volume", "attack_sources"} \cap DOMAIN indicators # {}
      [] category = "supply_chain_compromise" ->
             {"compromised_software", "vendor"} \cap DOMAIN indicators # {}

\* C10: the classifier returns the first category of CategoryOrder whose
\* markers the report holds, whatever later categories' markers it also
\* holds, and insider_threat exactly when it holds the markers of none.
C10_FirstMatchingCategoryWins ==
    (ret.op = "classify_incident" /\ ret.raised = None) =>
        LET indicators == Get(report, "indicators", EmptyDict)
            matching == {c \in 1..Len(CategoryOrder) : HasMarkers(CategoryOrder[c], indicators)}
        IN  /\ matching = {} <=> ret.value.incident_type = "insider_threat"
            /\ \A c \in matching :
                   (\A d \in matching : c <= d) => ret.value.incident_type = CategoryOrder[c]

\* C10 witness: a report with exfiltration, credential and supply-chain
\* markers and no ransomware marker was classified as data exfiltration.
C10_Witness ==
    /\ ret.op = "classify_incident"
    /\ ret.raised = None
    /\ {"external_ips", "compromised_accounts", "vendor"} \subseteq DOMAIN ret.value.indicators
    /\ ~HasMarkers("malware_outbreak", ret.value.indicators)
    /\ ret.value.incident_type = "data_exfiltration"

----------------------------------------------------------------------------
(* C11: classification is total *)

\* C11 (as claimed): classify_incident raises on no report, whatever it holds
\* under 'severity' (nothing, a valid name, an unknown string, a value that is
\* no string) and under 'indicators', and a severity that is absent or names
\* no level is classified as medium.
C11_ClassifyTotalDefaultsMedium ==
    ret.op = "classify_incident" =>
        /\ ret.raised = None
        /\ ( \/ "severity" \notin DOMAIN report
             \/ report.severity \in NonStrings
             \/ lower(report.severity) \notin {"low", "medium", "high", "critical"} )
               => ret.value.severity = "medium"

----------------------------------------------------------------------------
(* C12 - C15: what the store holds of a plan's execution *)

\* The rows the store holds for the incident process_incident classified last.
CurrentRows == select_actions(response_actions, current_incident_id, 1)

\* process_incident has generated a plan, executed it and ended, and nothing
\* was called since.
PlanExecuted ==
    /\ pc = "idle"
    /\ ret.op = "process_incident"
    /\ response_steps # <<>>
    /\ Len(futures) = Len(response_steps)

SameStep(row, step) == row.action_type = step.action /\ row.target = step.target

\* C12 (as claimed): saving a step outcome is an upsert.  However often the
\* same step of the same incident is saved, the store holds one record for
\* that incident and step, and the status query lists the step once.
C12_SaveIsUpsert ==
    /\ \A k, l \in 1..Len(response_actions) :
           ( /\ response_actions[k].incident_id = response_actions[l].incident_id
             /\ response_actions[k].action_type = response_actions[l].action_type
             /\ response_actions[k].target = response_actions[l].target ) => k = l
    /\ (ret.op = "get_incident_status" /\ "response_actions" \in DOMAIN ret.value) =>
           \A k, l \in 1..Len(ret.value.response_actions) :
               ( /\ ret.value.response_actions[k].action_type
                        = ret.value.response_actions[l].action_type
                 /\ ret.value.response_actions[k].target
                        = ret.value.response_actions[l].target ) => k = l

\* C13 (as claimed): when process_incident has executed a plan, the store
\* holds exactly one record for every step of the plan, each completed or
\* failed, with its execution time and its result.
C13_OneTerminalRecordPerStep ==
    PlanExecuted =>
        /\ Len(CurrentRows) = Len(response_steps)
        /\ \A i \in 1..Len(response_steps) :
               \E k \in 1..Len(CurrentRows) : SameStep(CurrentRows[k], response_steps[i])
        /\ \A k \in 1..Len(CurrentRows) :
               /\ CurrentRows[k].status \in {"completed", "failed"}
               /\ CurrentRows[k].execution_time # None
               /\ CurrentRows[k].result # None

\* C14 (as claimed): the recorded status follows the outcome of the action.
\* A step whose manager reported failure is recorded as failed, and every
\* step recorded as completed is one whose action succeeded.
C14_RecordedStatusFollowsOutcome ==
    PlanExecuted =>
        \A i \in 1..Len(response_steps) :
            /\ futures[i].result = "Failed" =>
                   \E k \in 1..Len(CurrentRows) :
                       /\ SameStep(CurrentRows[k], response_steps[i])
                       /\ CurrentRows[k].status = "failed"
            /\ \A k \in 1..Len(CurrentRows) :
                   ( /\ SameStep(CurrentRows[k], response_steps[i])
                     /\ CurrentRows[k].status = "completed" ) =>
                       (futures[i].exception = None /\ futures[i].result # "Failed")

\* C15 (as claimed): a step that was still running when its timeout had
\* passed ends as failed, with a result that tells so, and the steps that ran
\* beside it were not cancelled: each of them has run to its own outcome.
C15_OverdueStepFailsOthersFinish ==
    PlanExecuted =>
        /\ \A i \in overdue :
               /\ response_steps[i].status = "failed"
               /\ response_steps[i].result # None
        /\ \A i \in 1..Len(futures) : futures[i].state = "FINISHED"

----------------------------------------------------------------------------
(* C17: a failed step stops only what depends on it *)

\* Step i depends on a failed step: one of its prerequisites has FAILED, or
\* depends on a failed step itself.
RECURSIVE DependsOnFailed(_, _)
DependsOnFailed(workflow, i) ==
    \E p \in Range(workflow[i].prerequisites) :
        \E j \in StepsNamed(workflow, p) :
            workflow[j].status = FAILED \/ DependsOnFailed(workflow, j)

HasFailed(workflow) == \E i \in 1..Len(workflow) : workflow[i].status = FAILED

\* C17: a failed step aborts nothing else.  In a workflow with a FAILED step,
\* get_next_steps still returns every pending step whose prerequisites are
\* all completed, and the driver is not left with a step that does not depend
\* on a failed one: when nothing is ready or running any more, every such
\* step has been driven to its end.
C17_FailureAbortsNothingElse ==
    \A incident_id \in DOMAIN active_workflows :
        LET workflow == active_workflows[incident_id]
            returned == get_next_steps(active_workflows, incident_id)
        IN  HasFailed(workflow) =>
                /\ \A i \in 1..Len(workflow) :
                       Ready(workflow, i) => workflow[i] \in Range(returned)
                /\ Quiescent(incident_id) =>
                       \A i \in 1..Len(workflow) :
                           ~DependsOnFailed(workflow, i) =>
                               workflow[i].status \in {COMPLETED, FAILED}

\* C17 witness: a step has failed and what depends on it is still pending,
\* while a step with prerequisites that does not depend on it was driven to
\* COMPLETED, and the driver has nothing left to do.
C17_Witness ==
    \E incident_id \in DOMAIN active_workflows :
        LET workflow == active_workflows[incident_id]
        IN  /\ Quiescent(incident_id)
            /\ ret.op = "update_step_status"
            /\ \E i \in 1..Len(workflow) :
                   DependsOnFailed(workflow, i) /\ workflow[i].status = PENDING
            /\ \E i \in 1..Len(workflow) :
                   /\ ~DependsOnFailed(workflow, i)
                   /\ Len(workflow[i].prerequisites) > 0
                   /\ workflow[i].status = COMPLETED

----------------------------------------------------------------------------
(* C18, C19: the order and the composition of a ransomware plan *)

Started(i) == i <= Len(futures) /\ futures[i].state \in {"RUNNING", "FINISHED"}
Finished(i) == i <= Len(futures) /\ futures[i].state = "FINISHED"

\* C18 (as claimed): while a plan executes, the evidence collection on a
\* system has not started unless the isolation of that system has ended.
C18_EvidenceAfterIsolation ==
    \A i, j \in 1..Len(response_steps) :
        ( /\ response_steps[i].action = COLLECT_EVIDENCE
          /\ response_steps[j].action = ISOLATE_SYSTEM
          /\ response_steps[i].target = response_steps[j].target
          /\ Started(i) ) => Finished(j)

StepsOf(action) == {i \in 1..Len(response_steps) : response_steps[i].action = action}

\* The numbers of steps C19 names, for n systems and m C2 addresses.
RansomwarePlanCounts(n, m) ==
    /\ Cardinality(StepsOf(ISOLATE_SYSTEM)) = n
    /\ Cardinality(StepsOf(BLOCK_IP)) = m
    /\ Cardinality(StepsOf(COLLECT_EVIDENCE)) = n
    /\ Cardinality(StepsOf(NOTIFY_STAKEHOLDERS)) = 1
    /\ Len(response_steps) = 2 * n + m + 1

\* The prerequisites C19 names: the isolation of its system for an evidence
\* collection, none for the other steps.
RansomwarePlanPrerequisites ==
    \A i \in 1..Len(response_steps) :
        /\ "prerequisites" \in DOMAIN response_steps[i]
        /\ IF response_steps[i].action = COLLECT_EVIDENCE
           THEN \E j \in StepsOf(ISOLATE_SYSTEM) :
                    /\ response_steps[j].target = response_steps[i].target
                    /\ response_steps[i].prerequisites = <<j>>
           ELSE response_steps[i].prerequisites = <<>>

RansomwarePlanGenerated ==
    /\ response_steps # <<>>
    /\ incidents[current_incident_id].incident_type = "malware_outbreak"

\* C19 (as claimed): the plan of a ransomware incident with n affected
\* systems and m C2 addresses holds n isolation steps, m block-ip steps, n
\* evidence collections and one notification, 2n + m + 1 steps in all; each
\* evidence collection has the isolation of its system as its prerequisite,
\* and the other steps have no prerequisite.
C19_RansomwarePlanComposition ==
    RansomwarePlanGenerated =>
        /\ RansomwarePlanCounts(Len(Get(report, "affected_systems", <<>>)),
                                Len(Get(Get(report, "indicators", EmptyDict), "c2_ips", <<>>)))
        /\ RansomwarePlanPrerequisites

----------------------------------------------------------------------------
(* C16, C20: escalation and notification *)

\* C16 (as claimed): an incident one of whose critical steps is marked FAILED
\* does not remain active: its stored status has changed to an escalated one.
C16_CriticalFailureEscalates ==
    \A incident_id \in DOMAIN active_workflows \cap DOMAIN incidents :
        LET workflow == active_workflows[incident_id]
        IN  (\E i \in 1..Len(workflow) : workflow[i].critical /\ workflow[i].status = FAILED)
                => incidents[incident_id].status # "active"

\* C20 (as claimed): every generated plan holds exactly one
\* notify-stakeholders step, as its last step and with no prerequisites: the
\* plan of _generate_response_plan, and the workflow of each WorkflowEngine
\* generator.
C20_OneNotificationLast ==
    /\ response_steps # <<>> =>
           /\ StepsOf(NOTIFY_STAKEHOLDERS) = {Len(response_steps)}
           /\ Get(response_steps[Len(response_steps)], "prerequisites", <<>>) = <<>>
    /\ \A incident_id \in DOMAIN active_workflows :
           LET workflow == active_workflows[incident_id]
           IN  /\ {i \in 1..Len(workflow) : workflow[i].action_type = NOTIFY_STAKEHOLDERS}
                      = {Len(workflow)}
               /\ workflow[Len(workflow)].prerequisites = <<>>

----------------------------------------------------------------------------
(* C21: a generator for every incident type *)

\* C21 (as claimed): create_workflow called with the value of any incident
\* type the classifier can return finds a generator: it raises nothing,
\* returns a workflow and registers it.
C21_EveryTypeHasGenerator ==
    ret.op = "create_workflow" =>
        /\ ret.raised = None
        /\ \E incident_id \in DOMAIN active_workflows :
               active_workflows[incident_id] = ret.value

----------------------------------------------------------------------------
(* C22: required indicators *)

\* The parameters that list the targets of a step.
TargetListKeys == {"systems", "ip_list", "accounts", "networks"}

\* C22 (as claimed): workflow generation never returns a critical step whose
\* target list is empty; it fails when the indicators the step needs are
\* absent.
C22_NoCriticalStepWithoutTargets ==
    (ret.op = "create_workflow" /\ ret.raised = None) =>
        \A i \in 1..Len(ret.value) :
            ret.value[i].critical =>
                \A k \in TargetListKeys \cap DOMAIN ret.value[i].parameters :
                    ret.value[i].parameters[k] # <<>>

C24_AtMostFiveRunning == Cardinality(Running) <= 5

\* Five steps of a plan of more than five are running and another is queued.
C24_Witness ==
    /\ Len(response_steps) > 5
    /\ Cardinality(Running) = 5
    /\ \E i \in 1..Len(futures) : futures[i].state = "PENDING"

\* C25: no step is retried.  Within one run of process_incident a step has
\* one work item, which is started once and is left alone once it has
\* finished; get_next_steps returns PENDING steps only, so never a FAILED
\* one, and a step of a workflow that is FAILED stays as it is.
C25_NoAutomaticRetry ==
    [][/\ Len(futures') <= Len(response_steps')
       /\ pc # "idle" =>
              /\ Len(futures') >= Len(futures)
              /\ \A i \in 1..Len(futures) :
                     /\ futures[i].state = "RUNNING" => futures'[i].state # "PENDING"
                     /\ futures[i].state = "FINISHED" => futures'[i] = futures[i]
       /\ \A incident_id \in DOMAIN active_workflows :
              /\ \A k \in 1..Len(get_next_steps(active_workflows, incident_id)) :
                     get_next_steps(active_workflows, incident_id)[k].status = PENDING
              /\ \A i \in 1..Len(active_workflows[incident_id]) :
                     active_workflows[incident_id][i].status = FAILED =>
                         /\ incident_id \in DOMAIN active_workflows'
                         /\ active_workflows'[incident_id][i] = active_workflows[incident_id][i]
      ]_vars

\* The action of a step of the response plan did not succeed and its work
\* item is finished; a step of the workflow is FAILED while other steps are
\* ready to be taken.
C25_Witness ==
    /\ \E i \in 1..Len(futures) :
           futures[i].state = "FINISHED" /\ futures[i].result = "Failed"
    /\ \E incident_id \in DOMAIN active_workflows :
           /\ \E i \in 1..Len(active_workflows[incident_id]) :
                  active_workflows[incident_id][i].status = FAILED
           /\ get_next_steps(active_workflows, incident_id) # <<>>

\* C26: steps are never deleted.  Whatever the engine is called with next,
\* a workflow that exists stays under its incident id and each of its steps
\* stays in it; only update_step_status changes the status and the result a
\* step has reached.
C26_StepsNeverDeleted ==
    [][\A incident_id \in DOMAIN active_workflows :
           /\ incident_id \in DOMAIN active_workflows'
           /\ \A i \in 1..Len(active_workflows[incident_id]) :
                  \E j \in 1..Len(active_workflows'[incident_id]) :
                      LET old == active_workflows[incident_id][i]
                          new == active_workflows'[incident_id][j]
                      IN  /\ new.step_id = old.step_id
                          /\ ret'.op # "update_step_status" => new = old
      ]_vars

\* C27: the status query of an incident whose plan has been generated lists
\* every step of the plan exactly once, whether the step has completed, has
\* failed or has not run yet.
C27_StatusListsEveryStep ==
    ( /\ ret.op = "get_incident_status"
      /\ ret.raised = None
      /\ "response_actions" \in DOMAIN ret.value
      /\ issued_ids # <<>>
      /\ ret.value.incident_id = current_incident_id
      /\ response_steps # <<>> ) =>
        \A i \in 1..Len(response_steps) :
            Cardinality({k \in 1..Len(ret.value.response_actions) :
                            /\ ret.value.response_actions[k].action_type
                                   = response_steps[i].action
                            /\ ret.value.response_actions[k].target
                                   = response_steps[i].target}) = 1

\* C28: process_incident stores the incident as active before it generates
\* or dispatches a step.  While a plan or a work item of the call exists the
\* incident is stored as active, and when the generation of the plan has
\* failed the incident is stored as active, with no step record and with
\* nothing generated or dispatched.
C28_StoredActiveBeforePlan ==
    /\ (response_steps # <<>> \/ futures # <<>>) =>
           /\ issued_ids # <<>>
           /\ current_incident_id \in DOMAIN incidents
           /\ incidents[current_incident_id].status = "active"
    /\ (ret.op = "process_incident" /\ ret.raised = "TypeError") =>
           /\ issued_ids # <<>>
           /\ current_incident_id \in DOMAIN incidents
           /\ incidents[current_incident_id].status = "active"
           /\ CurrentRows = <<>>
           /\ response_steps = <<>>
           /\ futures = <<>>

\* The generation of the plan has failed for a ransomware incident whose
\* affected_systems is null.
C28_Witness ==
    /\ ret.op = "process_incident"
    /\ ret.raised = "TypeError"
    /\ report = NullSystemsReport
    /\ current_incident_id \in DOMAIN incidents
    /\ incidents[current_incident_id].incident_type = "malware_outbreak"

\* C29: get_next_steps changes no state.  A call leaves every workflow as
\* it is and returns the steps that are ready after it as before it, so a
\* repeated call returns them again; of the operations of the engine only
\* update_step_status and create_workflow change what is ready.
C29_NextStepsChangesNothing ==
    [][/\ ret'.op = "get_next_steps" =>
              /\ active_workflows' = active_workflows
              /\ \E incident_id \in QueryIds :
                     /\ ret'.value = get_next_steps(active_workflows, incident_id)
                     /\ ret'.value = get_next_steps(active_workflows', incident_id)
       /\ ret'.op \notin {"update_step_status", "create_workflow"} =>
              \A incident_id \in QueryIds :
                  get_next_steps(active_workflows', incident_id)
                      = get_next_steps(active_workflows, incident_id)
      ]_vars

\* get_next_steps has returned steps, each of them still PENDING and ready.
C29_Witness ==
    /\ ret.op = "get_next_steps"
    /\ ret.value # <<>>
    /\ \E incident_id \in DOMAIN active_workflows :
           /\ ret.value = get_next_steps(active_workflows, incident_id)
           /\ \A k \in 1..Len(ret.value) : ret.value[k].status = PENDING

\* C30: a process_incident call whose report is classified with an
\* incident_id that is stored already fails when it stores the incident.
\* It raises, none of its steps is generated or executed, no response_actions
\* record is written and the record of the first incident is unchanged.
C30_DuplicateIdFailsAtStore ==
    [][( /\ pc = "idle"
         /\ issued_ids' # issued_ids
         /\ issued_ids'[Len(issued_ids')] \in DOMAIN incidents ) =>
           /\ ret' = Raised("process_incident", "IntegrityError")
           /\ incidents' = incidents
           /\ response_actions' = response_actions
           /\ response_steps' = <<>>
           /\ futures' = <<>>
           /\ pc' = "idle"
      ]_vars

\* The second report was handled later in the second of the first, so its
\* record would differ from the stored one.
C30_Witness ==
    /\ ret = Raised("process_incident", "IntegrityError")
    /\ Len(issued_ids) >= 2
    /\ issued_ids[Len(issued_ids)] = issued_ids[Len(issued_ids) - 1]
    /\ incidents[current_incident_id].detection_time # isoformat(clock)
    /\ generate_response_plan(classify_incident(report, clock)) # <<>>
    /\ ~generate_response_plan_raises(classify_incident(report, clock))

====
